---- MODULE Spec2Model ----
(***************************************************************************)
(* Request admission and audit subsystem of the certificate distribution   *)
(* platform: the rate limiter, the CSRF token manager, the request logger  *)
(* and the fraud detector of app/security.py and the two generation        *)
(* endpoints of app/main.py that combine them.                             *)
(*                                                                         *)
(* Time is the wall clock in whole seconds (time.time(), datetime.now()).  *)
(* It never runs backwards; several calls may read the same instant.       *)
(***************************************************************************)
EXTENDS Integers, Sequences, FiniteSets, TLC

VARIABLES
    now,             \* the wall clock, in seconds
    max_requests,    \* RateLimiter.max_requests
    window_seconds,  \* RateLimiter.window_seconds
    requests,        \* RateLimiter.requests: key -> sequence of timestamps
    tokens,          \* CSRFTokenManager.tokens: token -> issuance time
    issued_at,       \* history: every token generate_token returned -> when
    tried,           \* history: tokens validate_token was called on since issued
    accepted,        \* history: token -> number of validate_token calls that returned True
    log_file,        \* the file RequestLogger.log_file names
    certificates,    \* certificate ids whose PDF exists in the output directory
    calls,           \* the method calls in flight: caller -> position and locals
    last             \* the last call: its operation, arguments and result

vars == <<now, max_requests, window_seconds, requests, tokens, issued_at, tried,
          accepted, log_file, certificates, calls, last>>

----------------------------------------------------------------------------
(* Bounds of the model. *)

MaxTokens == 2        \* tokens generate_token hands out
MaxTokenClock == 3    \* last instant of the token manager's clock
MaxAge == 2           \* largest max_age a validate_token call passes

MaxRequests == 2      \* largest max_requests a RateLimiter is constructed with
MaxWindow == 2        \* largest window_seconds a RateLimiter is constructed with
MaxRateClock == 3     \* last instant of the rate limiter's clock

MaxLog == 3           \* entries a log file holds before the logger's model stops appending
MaxLogClock == 2      \* last instant of the request logger's clock
MaxLimit == 2         \* largest limit a get_logs call passes

MaxGateLog == 1       \* entries the log file holds before a generation request is held back
MaxGateTokens == 1    \* tokens GET /csrf-token hands out
MaxGateClock == 60    \* last instant of the gate's clock

MaxFraudLog == 3      \* entries the log file holds before the detector's model stops appending
MaxVerdictLog == 10   \* entries the log file holds before the verdict's model stops appending
MaxForeign == 1       \* entries written into the log file by something other than log_request
MaxWindowMinutes == 1 \* largest window_minutes a check_suspicious_activity call passes
MaxFraudClock == 120  \* last instant of the detector's clock

MaxDayClock == 86400  \* last instant of the clock of the day partitioning's model

MaxCallers == 2       \* callers that run a method at the same time
MaxThreadCalls == 2   \* calls each of them starts

MaxRenderTokens == 2  \* tokens issued to a client that repeats its request
MaxRenderLog == 2     \* entries of the log file in the model of the repeated request

(* Program constants. *)

DefaultMaxAge == 3600          \* validate_token(max_age=3600)
ConfiguredMaxRequests == 5     \* RateLimiter(max_requests=5, ...)
ConfiguredWindowSeconds == 60  \* RateLimiter(..., window_seconds=60)

----------------------------------------------------------------------------
(* Dictionaries. *)

EmptyMap == [k \in {} |-> 0]

Get(map, key, default) == IF key \in DOMAIN map THEN map[key] ELSE default

Put_Shared(map, key, value) == [k \in DOMAIN map \cup {key} |-> value]

Put(map, key, value) == [k \in DOMAIN map \cup {key} |-> IF k = key THEN value ELSE map[k]]

Del(map, key) == [k \in DOMAIN map \ {key} |-> map[k]]

----------------------------------------------------------------------------
(* Callers that run at the same time. A caller is a task of the server that
   is inside one method call; its position is the statement it executes next. *)

Callers == 1..MaxCallers

\* A caller that is in no call; returned is the history of what its calls
\* returned or raised.
Idle(returned) == [pc |-> "idle", returned |-> returned]

NoCalls == [caller \in Callers |-> Idle(<<>>)]

\* A caller may start one more call.
MayEnter(caller) ==
    /\ calls[caller].pc = "idle"
    /\ Len(calls[caller].returned) < MaxThreadCalls

\* The caller's call returns (or raises) result.
Return(caller, result) ==
    [calls EXCEPT ![caller] = Idle(Append(calls[caller].returned, result))]

----------------------------------------------------------------------------
(* CSRFTokenManager *)

\* secrets.token_urlsafe(32): 256 random bits. The k-th token drawn is modelled
\* as the number k, distinct from every token drawn before; 0 stands for a
\* string the generator never returned.
TokenInputs == 0..MaxTokens

NewToken == Cardinality(DOMAIN issued_at) + 1

TokenExpired_OffByOne(token_age, max_age) == token_age >= max_age

\* token_age > max_age
TokenExpired(token_age, max_age) == token_age > max_age

\* The value validate_token returns.
ValidateResult(token, max_age) ==
    IF token \notin DOMAIN tokens THEN FALSE
    ELSE IF TokenExpired(now - tokens[token], max_age) THEN FALSE
    ELSE TRUE

ValidateTokens_KeepOnSuccess(token, max_age) ==
    IF token \notin DOMAIN tokens THEN tokens
    ELSE IF TokenExpired(now - tokens[token], max_age) THEN Del(tokens, token)
    ELSE tokens

ValidateTokens_KeepOnExpiry(token, max_age) ==
    IF token \notin DOMAIN tokens THEN tokens
    ELSE IF TokenExpired(now - tokens[token], max_age) THEN tokens
    ELSE Del(tokens, token)

\* The token map validate_token leaves: a known token is deleted on both paths.
ValidateTokens(token, max_age) ==
    IF token \notin DOMAIN tokens THEN tokens ELSE Del(tokens, token)

generate_token ==
    /\ NewToken <= MaxTokens
    /\ tokens' = Put(tokens, NewToken, now)
    /\ issued_at' = Put(issued_at, NewToken, now)
    /\ accepted' = Put(accepted, NewToken, 0)
    /\ last' = [op |-> "generate_token", result |-> NewToken]
    /\ UNCHANGED <<calls, now, max_requests, window_seconds, requests, tried,
                   log_file, certificates>>

\* The history kept of one validate_token call.
NoteValidation(token, result) ==
    /\ tried' = IF token \in DOMAIN issued_at THEN tried \cup {token} ELSE tried
    /\ accepted' = IF result /\ token \in DOMAIN accepted
                      THEN [accepted EXCEPT ![token] = @ + 1]
                      ELSE accepted

validate_token(token, max_age) ==
    LET result == ValidateResult(token, max_age) IN
    /\ tokens' = ValidateTokens(token, max_age)
    /\ NoteValidation(token, result)
    /\ last' = [op |-> "validate_token", token |-> token, max_age |-> max_age,
                known |-> token \in DOMAIN tokens, first |-> token \notin tried,
                result |-> result]
    /\ UNCHANGED <<calls, now, max_requests, window_seconds, requests, issued_at,
                   log_file, certificates>>

TickToken ==
    /\ now < MaxTokenClock
    /\ now' = now + 1
    /\ last' = [op |-> "tick"]
    /\ UNCHANGED <<calls, max_requests, window_seconds, requests, tokens, issued_at,
                   tried, accepted, log_file, certificates>>

ValidateTokenCall ==
    \E token \in TokenInputs, max_age \in 0..MaxAge : validate_token(token, max_age)

----------------------------------------------------------------------------
(* RateLimiter *)

Endpoints == {"get_certificate", "get_management_certificate"}

\* The (ip_address, endpoint) pairs is_allowed is called with: one address on
\* both endpoints and a second address.
RateCalls == {<<"10.0.0.1", "get_certificate">>,
              <<"10.0.0.1", "get_management_certificate">>,
              <<"10.0.0.2", "get_certificate">>}

\* key = f"{ip_address}:{endpoint}"
Key(ip_address, endpoint) == ip_address \o ":" \o endpoint

\* self.requests is a defaultdict(list): a key never seen reads as the empty list.
RequestsOf(key) == Get(requests, key, <<>>)

Fresh_Forever(req_time, t, window) == TRUE

Fresh_Inclusive(req_time, t, window) == t - req_time <= window

\* now - req_time < self.window_seconds
Fresh(req_time, t, window) == t - req_time < window

\* Clean old requests outside window.
Prune(times, t, window) == SelectSeq(times, LAMBDA req_time : Fresh(req_time, t, window))

AtLimit_OffByOne(count, limit) == count > limit

\* len(self.requests[key]) >= self.max_requests
AtLimit(count, limit) == count >= limit

AllowedTimes_RecordsRejected(key) ==
    Append(Prune(RequestsOf(key), now, window_seconds), now)

AllowedResult_CountBeforeAppend(key) ==
    LET pruned == Prune(RequestsOf(key), now, window_seconds) IN
    IF AtLimit(Len(pruned), max_requests)
        THEN [allowed |-> FALSE, remaining |-> 0]
        ELSE [allowed |-> TRUE, remaining |-> max_requests - Len(pruned)]

\* The sequence is_allowed leaves under its key.
AllowedTimes(key) ==
    LET pruned == Prune(RequestsOf(key), now, window_seconds) IN
    IF AtLimit(Len(pruned), max_requests) THEN pruned ELSE Append(pruned, now)

\* The pair is_allowed returns.
AllowedResult(key) ==
    LET pruned == Prune(RequestsOf(key), now, window_seconds) IN
    IF AtLimit(Len(pruned), max_requests)
        THEN [allowed |-> FALSE, remaining |-> 0]
        ELSE [allowed |-> TRUE, remaining |-> max_requests - (Len(pruned) + 1)]

is_allowed(ip_address, endpoint) ==
    LET key == Key(ip_address, endpoint) IN
    /\ requests' = Put(requests, key, AllowedTimes(key))
    /\ last' = [op |-> "is_allowed", key |-> key, at |-> now,
                before |-> RequestsOf(key),
                allowed |-> AllowedResult(key).allowed,
                remaining |-> AllowedResult(key).remaining]
    /\ UNCHANGED <<calls, now, max_requests, window_seconds, tokens, issued_at, tried,
                   accepted, log_file, certificates>>

IsAllowedCall ==
    \E call \in RateCalls : is_allowed(call[1], call[2])

TickRate ==
    /\ now < MaxRateClock
    /\ now' = now + 1
    /\ last' = [op |-> "tick"]
    /\ UNCHANGED <<calls, max_requests, window_seconds, requests, tokens, issued_at,
                   tried, accepted, log_file, certificates>>

----------------------------------------------------------------------------
(* CSRFTokenManager.validate_token statement by statement, for callers that
   run at the same time: no statement of validate_token takes a lock. *)

\* A call enters with a token generate_token has returned.
ValidateEnter(caller) ==
    /\ MayEnter(caller)
    /\ \E token \in DOMAIN issued_at :
          calls' = [calls EXCEPT ![caller] =
                       [pc |-> "check", returned |-> @.returned, token |-> token]]
    /\ UNCHANGED tokens

\* if token not in self.tokens: return False
ValidateCheck(caller) ==
    /\ calls[caller].pc = "check"
    /\ calls' = IF calls[caller].token \notin DOMAIN tokens
                    THEN Return(caller, [token |-> calls[caller].token, value |-> FALSE])
                    ELSE [calls EXCEPT ![caller].pc = "age"]
    /\ UNCHANGED tokens

\* token_age = time.time() - self.tokens[token]
ValidateAge(caller) ==
    /\ calls[caller].pc = "age"
    /\ calls' = IF calls[caller].token \notin DOMAIN tokens
                    THEN Return(caller, [token |-> calls[caller].token,
                                         raised |-> "KeyError"])
                    ELSE [calls EXCEPT ![caller] =
                             [pc |-> "delete", returned |-> @.returned, token |-> @.token,
                              token_age |-> now - tokens[@.token]]]
    /\ UNCHANGED tokens

\* if token_age > max_age: del self.tokens[token]; return False
\* del self.tokens[token]; return True
ValidateDelete(caller) ==
    LET token == calls[caller].token IN
    /\ calls[caller].pc = "delete"
    /\ calls' = IF token \notin DOMAIN tokens
                    THEN Return(caller, [token |-> token, raised |-> "KeyError"])
                    ELSE Return(caller, [token |-> token,
                                         value |-> ~TokenExpired(calls[caller].token_age,
                                                                 DefaultMaxAge)])
    /\ tokens' = Del(tokens, token)

\* One statement of one caller's validate_token.
ValidateStep ==
    /\ \E caller \in Callers :
          \/ ValidateEnter(caller)
          \/ ValidateCheck(caller)
          \/ ValidateAge(caller)
          \/ ValidateDelete(caller)
    /\ last' = [op |-> "validate_token_step"]
    /\ UNCHANGED <<now, max_requests, window_seconds, requests, issued_at, tried,
                   accepted, log_file, certificates>>

----------------------------------------------------------------------------
(* RateLimiter.is_allowed statement by statement, for callers that run at the
   same time: no statement of is_allowed takes a lock. *)

\* The key the callers share.
SharedKey == Key("10.0.0.1", "get_certificate")

\* key = f"{ip_address}:{endpoint}"; now = time.time()
IsAllowedEnter(caller) ==
    /\ MayEnter(caller)
    /\ calls' = [calls EXCEPT ![caller] =
                    [pc |-> "prune", returned |-> @.returned, at |-> now]]
    /\ UNCHANGED requests

\* The comprehension builds the pruned list from the list of the key.
IsAllowedPrune(caller) ==
    /\ calls[caller].pc = "prune"
    /\ calls' = [calls EXCEPT ![caller] =
                    [pc |-> "store", returned |-> @.returned, at |-> @.at,
                     pruned |-> Prune(RequestsOf(SharedKey), @.at, window_seconds)]]
    /\ requests' = Put(requests, SharedKey, RequestsOf(SharedKey))

\* self.requests[key] = [...]
IsAllowedStore(caller) ==
    /\ calls[caller].pc = "store"
    /\ requests' = Put(requests, SharedKey, calls[caller].pruned)
    /\ calls' = [calls EXCEPT ![caller] =
                    [pc |-> "check", returned |-> @.returned, at |-> @.at]]

\* if len(self.requests[key]) >= self.max_requests: return False, 0
IsAllowedCheck(caller) ==
    /\ calls[caller].pc = "check"
    /\ calls' = IF AtLimit(Len(RequestsOf(SharedKey)), max_requests)
                    THEN Return(caller, [allowed |-> FALSE, remaining |-> 0])
                    ELSE [calls EXCEPT ![caller].pc = "append"]
    /\ UNCHANGED requests

\* self.requests[key].append(now)
IsAllowedAppend(caller) ==
    /\ calls[caller].pc = "append"
    /\ requests' = Put(requests, SharedKey, Append(RequestsOf(SharedKey), calls[caller].at))
    /\ calls' = [calls EXCEPT ![caller].pc = "count"]

\* remaining = self.max_requests - len(self.requests[key]); return True, remaining
IsAllowedReturn(caller) ==
    /\ calls[caller].pc = "count"
    /\ calls' = Return(caller, [allowed |-> TRUE,
                                 remaining |-> max_requests - Len(RequestsOf(SharedKey))])
    /\ UNCHANGED requests

\* One statement of one caller's is_allowed.
IsAllowedStep ==
    /\ \E caller \in Callers :
          \/ IsAllowedEnter(caller)
          \/ IsAllowedPrune(caller)
          \/ IsAllowedStore(caller)
          \/ IsAllowedCheck(caller)
          \/ IsAllowedAppend(caller)
          \/ IsAllowedReturn(caller)
    /\ last' = [op |-> "is_allowed_step"]
    /\ UNCHANGED <<now, max_requests, window_seconds, tokens, issued_at, tried,
                   accepted, log_file, certificates>>

----------------------------------------------------------------------------
(* RequestLogger *)

\* datetime.now().isoformat(): the date and the time of day as a string of
\* fixed-width decimal fields, modelled as the sequence of the date (counted in
\* days) and the six digits of HH:MM:SS.
IsoFormat(t) ==
    LET secs == t % 86400
        hh == secs \div 3600
        mm == (secs % 3600) \div 60
        ss == secs % 60
    IN <<t \div 86400, hh \div 10, hh % 10, mm \div 10, mm % 10, ss \div 10, ss % 10>>

\* datetime.fromisoformat(): the instant a timestamp string denotes.
FromIsoFormat(ts) ==
    ts[1] * 86400 + (ts[2] * 10 + ts[3]) * 3600 + (ts[4] * 10 + ts[5]) * 60
        + ts[6] * 10 + ts[7]

\* String comparison a < b: the first differing position decides; a proper
\* prefix is smaller.
StrLess(a, b) ==
    \/ \E i \in 1..Len(a) :
          /\ i <= Len(b)
          /\ a[i] < b[i]
          /\ \A j \in 1..(i - 1) : a[j] = b[j]
    \/ /\ Len(a) < Len(b)
       /\ \A j \in 1..Len(a) : a[j] = b[j]

Min(a, b) == IF a <= b THEN a ELSE b

\* The entries json.load reads from the file; log_request starts from the
\* empty list when the file is missing or does not parse.
LoadLogs == IF log_file.exists /\ log_file.valid THEN log_file.logs ELSE <<>>

LogEntry(ip_address, endpoint, name, id_value, status, reason) ==
    [timestamp |-> IsoFormat(now), ip_address |-> ip_address, endpoint |-> endpoint,
     name |-> name, id |-> id_value, status |-> status, reason |-> reason]

LoggedFile_Overwrite(entry) == [exists |-> TRUE, valid |-> TRUE, logs |-> <<entry>>]

\* The file log_request writes: the entries read, then the new one.
LoggedFile(entry) == [exists |-> TRUE, valid |-> TRUE, logs |-> Append(LoadLogs, entry)]

\* What happens to the write of the file: it succeeds, open(log_file, 'w')
\* fails and leaves the file as it was, or the file is truncated and the disk
\* is full before the list is written out.
WriteOutcomes == {"ok", "denied", "disk_full"}

\* What log_request finds where it reads the file.
ReadState ==
    IF ~log_file.exists THEN "missing"
    ELSE IF ~log_file.valid THEN "corrupt"
    ELSE "list"

Written_UnreadableKept(write, entry) ==
    IF ReadState = "corrupt" THEN log_file ELSE LoggedFile(entry)

\* The file after log_request, and the exception that leaves log_request.
Written(write, entry) ==
    CASE write = "ok" -> LoggedFile(entry)
      [] write = "denied" -> log_file
      [] write = "disk_full" -> [exists |-> TRUE, valid |-> FALSE, logs |-> <<>>]

WriteError(write) == IF write = "ok" THEN "" ELSE "OSError"

log_request(ip_address, endpoint, name, id_value, status, reason, write) ==
    LET entry == LogEntry(ip_address, endpoint, name, id_value, status, reason) IN
    /\ log_file' = Written(write, entry)
    /\ last' = [op |-> "log_request", entry |-> entry, read |-> ReadState,
                raised |-> WriteError(write)]
    /\ UNCHANGED <<calls, now, max_requests, window_seconds, requests, tokens, issued_at,
                   tried, accepted, certificates>>

\* x.get('timestamp', ''): the empty string for an entry without the key.
SortKey(log) == IF "timestamp" \in DOMAIN log THEN log.timestamp ELSE <<>>

\* The place of one more element in a list sorted most recent first: behind
\* every element whose key is not smaller, so equal keys keep their order.
InsertDesc(sorted, log) ==
    LET ahead == Cardinality({i \in 1..Len(sorted) :
                                ~StrLess(SortKey(sorted[i]), SortKey(log))})
    IN SubSeq(sorted, 1, ahead) \o <<log>> \o SubSeq(sorted, ahead + 1, Len(sorted))

RECURSIVE SortedDesc(_)
\* sorted(logs, key=..., reverse=True): a stable sort, elements with equal
\* keys stay in the order of the list.
SortedDesc(logs) ==
    IF logs = <<>> THEN <<>>
    ELSE InsertDesc(SortedDesc(SubSeq(logs, 1, Len(logs) - 1)), logs[Len(logs)])

\* An ip_address of None (the default) or "" is falsy: no filter.
NoIp == ""

\* Filter by IP if provided.
FilterByIp(logs, ip_address) ==
    IF ip_address # NoIp
        THEN SelectSeq(logs, LAMBDA log : log.ip_address = ip_address)
        ELSE logs

MostRecent_CutBeforeSort(logs, limit) ==
    SortedDesc(SubSeq(logs, 1, Min(limit, Len(logs))))

\* sorted(...)[:limit], for a limit >= 0.
MostRecent(logs, limit) ==
    LET sorted == SortedDesc(logs) IN SubSeq(sorted, 1, Min(limit, Len(sorted)))

\* The list get_logs returns when log_file is the given file.
GetLogsOf(file, ip_address, limit) ==
    IF ~file.exists THEN <<>>
    ELSE IF ~file.valid THEN <<>>
    ELSE MostRecent(FilterByIp(file.logs, ip_address), limit)

\* The list get_logs returns.
GetLogs(ip_address, limit) == GetLogsOf(log_file, ip_address, limit)

get_logs(ip_address, limit) ==
    /\ last' = [op |-> "get_logs", ip_address |-> ip_address, limit |-> limit,
                result |-> GetLogs(ip_address, limit)]
    /\ UNCHANGED <<calls, now, max_requests, window_seconds, requests, tokens, issued_at,
                   tried, accepted, log_file, certificates>>

LogIps == {"10.0.0.1", "10.0.0.2"}

LogOutcomes == {<<"success", "">>, <<"failed", "Student not found">>}

LogRequestCall ==
    /\ Len(LoadLogs) < MaxLog
    /\ \E ip_address \in LogIps, outcome \in LogOutcomes :
          log_request(ip_address, "get_certificate", "Jane Doe", "S123",
                      outcome[1], outcome[2], "ok")

GetLogsCall ==
    \E ip_address \in LogIps \cup {NoIp}, limit \in 0..MaxLimit : get_logs(ip_address, limit)

\* The file is deleted, or its content is damaged, from outside the program.
LogFileLost ==
    /\ log_file.exists
    /\ log_file' = [exists |-> FALSE, valid |-> FALSE, logs |-> <<>>]
    /\ last' = [op |-> "log_file_lost"]
    /\ UNCHANGED <<calls, now, max_requests, window_seconds, requests, tokens, issued_at,
                   tried, accepted, certificates>>

LogFileCorrupted ==
    /\ log_file.exists /\ log_file.valid
    /\ log_file' = [exists |-> TRUE, valid |-> FALSE, logs |-> <<>>]
    /\ last' = [op |-> "log_file_corrupted"]
    /\ UNCHANGED <<calls, now, max_requests, window_seconds, requests, tokens, issued_at,
                   tried, accepted, certificates>>

(* RequestLogger.log_request statement by statement, for callers that run at
   the same time: no statement of log_request takes a lock. *)

\* The client each caller logs a request of.
CallerIp(caller) == IF caller = 1 THEN "10.0.0.1" ELSE "10.0.0.2"

\* log_entry = {...}
LogEnter(caller) ==
    /\ MayEnter(caller)
    /\ calls' = [calls EXCEPT ![caller] =
                    [pc |-> "read", returned |-> @.returned,
                     entry |-> LogEntry(CallerIp(caller), "get_certificate", "Jane Doe",
                                        "S123", "success", "")]]
    /\ UNCHANGED log_file

\* logs = json.load(f), or [] for a missing or unreadable file; logs.append(log_entry)
LogRead(caller) ==
    /\ calls[caller].pc = "read"
    /\ calls' = [calls EXCEPT ![caller] =
                    [pc |-> "open", returned |-> @.returned, entry |-> @.entry,
                     logs |-> Append(LoadLogs, @.entry)]]
    /\ UNCHANGED log_file

\* open(self.log_file, 'w') truncates the file.
LogOpen(caller) ==
    /\ calls[caller].pc = "open"
    /\ log_file' = [exists |-> TRUE, valid |-> FALSE, logs |-> <<>>]
    /\ calls' = [calls EXCEPT ![caller].pc = "dump"]

\* json.dump(logs, f, indent=2); the file is closed and the call returns.
LogDump(caller) ==
    /\ calls[caller].pc = "dump"
    /\ log_file' = [exists |-> TRUE, valid |-> TRUE, logs |-> calls[caller].logs]
    /\ calls' = Return(caller, [entry |-> calls[caller].entry])

\* One statement of one caller's log_request.
LogStep ==
    /\ \E caller \in Callers :
          \/ LogEnter(caller)
          \/ LogRead(caller)
          \/ LogOpen(caller)
          \/ LogDump(caller)
    /\ last' = [op |-> "log_request_step"]
    /\ UNCHANGED <<now, max_requests, window_seconds, requests, tokens, issued_at,
                   tried, accepted, certificates>>

\* The day in the name of log_file, certificate_requests_<day>.json: the name
\* is made once, in __init__, from the clock of that moment (Init: now = 0).
LogFileDay == 0

\* The calendar day of an instant, as strftime('%Y%m%d') gives it.
DayOf(t) == t \div 86400

\* The clock of the day partitioning's model moves in half days.
TickDay ==
    /\ now + 43200 <= MaxDayClock
    /\ now' = now + 43200
    /\ last' = [op |-> "tick"]
    /\ UNCHANGED <<calls, max_requests, window_seconds, requests, tokens, issued_at,
                   tried, accepted, log_file, certificates>>

TickLog ==
    /\ now < MaxLogClock
    /\ now' = now + 1
    /\ last' = [op |-> "tick"]
    /\ UNCHANGED <<calls, max_requests, window_seconds, requests, tokens, issued_at,
                   tried, accepted, log_file, certificates>>

----------------------------------------------------------------------------
(* FraudDetector *)

\* The limit check_suspicious_activity passes to get_logs, and its default
\* window_minutes.
DetectorLimit == 1000
DefaultWindowMinutes == 10

\* The strings datetime.fromisoformat accepts: the ones isoformat() writes.
WellFormed(ts) == Len(ts) = 7

\* What evaluating datetime.fromisoformat(log['timestamp']) raises for an
\* entry, "" when it raises nothing.
TimestampError(log) ==
    IF "timestamp" \notin DOMAIN log THEN "KeyError"
    ELSE IF ~WellFormed(log.timestamp) THEN "ValueError"
    ELSE ""

\* The test of the recent_logs comprehension:
\* (fromisoformat(log['timestamp']) - now).total_seconds() < window_minutes * 60
InWindow(log, t, window_minutes) ==
    FromIsoFormat(log.timestamp) - t < window_minutes * 60

\* The number of entries of a list with the given status.
WithStatus(logs, status) ==
    Cardinality({i \in 1..Len(logs) : logs[i].status = status})

Suspicious_AtThreshold(failed_attempts, success_count) ==
    failed_attempts >= 5 \/ success_count >= 3

Suspicious(failed_attempts, success_count) ==
    failed_attempts > 5 \/ success_count > 3

VerdictReason(failed_attempts, success_count) ==
    IF failed_attempts > 5 THEN "Multiple failed attempts"
    ELSE IF success_count > 3 THEN "Too many successful downloads in short time"
    ELSE "Normal"

\* What check_suspicious_activity returns or raises at instant t when log_file
\* is the given file: the comprehension goes through the list get_logs
\* returned and raises at the first entry whose timestamp is missing or does
\* not parse.
Assess(file, ip_address, window_minutes, t) ==
    LET logs == GetLogsOf(file, ip_address, DetectorLimit)
        bad == {i \in 1..Len(logs) : TimestampError(logs[i]) # ""}
    IN IF bad # {}
           THEN [raised |-> TimestampError(logs[CHOOSE i \in bad : \A j \in bad : i <= j])]
       ELSE LET recent_logs == SelectSeq(logs, LAMBDA log : InWindow(log, t, window_minutes))
                failed_attempts == WithStatus(recent_logs, "failed")
                success_count == WithStatus(recent_logs, "success")
            IN [ip |-> ip_address,
                recent_requests |-> Len(recent_logs),
                failed_attempts |-> failed_attempts,
                successful_downloads |-> success_count,
                suspicious |-> Suspicious(failed_attempts, success_count),
                reason |-> VerdictReason(failed_attempts, success_count)]

CheckSuspiciousActivity(ip_address, window_minutes, t) ==
    Assess(log_file, ip_address, window_minutes, t)

check_suspicious_activity_ClearsLog(ip_address, window_minutes) ==
    /\ last' = [op |-> "check_suspicious_activity", ip_address |-> ip_address,
                window_minutes |-> window_minutes,
                result |-> CheckSuspiciousActivity(ip_address, window_minutes, now)]
    /\ log_file' = [exists |-> FALSE, valid |-> FALSE, logs |-> <<>>]
    /\ UNCHANGED <<calls, now, max_requests, window_seconds, requests, tokens, issued_at,
                   tried, accepted, certificates>>

check_suspicious_activity(ip_address, window_minutes) ==
    /\ last' = [op |-> "check_suspicious_activity", ip_address |-> ip_address,
                window_minutes |-> window_minutes,
                result |-> CheckSuspiciousActivity(ip_address, window_minutes, now)]
    /\ UNCHANGED <<calls, now, max_requests, window_seconds, requests, tokens, issued_at,
                   tried, accepted, log_file, certificates>>

\* The requests the detector's model logs: successes and failures of one IP,
\* failures of another.
DetectorLogCalls ==
    {<<"10.0.0.1", "success", "">>, <<"10.0.0.1", "failed", "Student not found">>,
     <<"10.0.0.2", "failed", "Invalid CSRF token">>}

DetectorLogCall ==
    /\ Len(LoadLogs) < MaxFraudLog
    /\ \E call \in DetectorLogCalls :
          log_request(call[1], "get_certificate", "Jane Doe", "S123", call[2], call[3],
                      "ok")

\* The requests the verdict's model logs: successes and failures of one IP at
\* one instant.
VerdictLogCall ==
    /\ Len(LoadLogs) < MaxVerdictLog
    /\ \E outcome \in LogOutcomes :
          log_request("10.0.0.1", "get_certificate", "Jane Doe", "S123",
                      outcome[1], outcome[2], "ok")

CheckCall ==
    \E ip_address \in LogIps, window_minutes \in 1..MaxWindowMinutes :
        check_suspicious_activity(ip_address, window_minutes)

\* Entries as something other than log_request may leave them in the file:
\* one whose timestamp is not an ISO date and one without a timestamp.
ForeignEntries ==
    {[timestamp |-> <<>>, ip_address |-> "10.0.0.1", endpoint |-> "get_certificate",
      name |-> "Jane Doe", id |-> "S123", status |-> "failed", reason |-> "imported"],
     [ip_address |-> "10.0.0.1", endpoint |-> "get_certificate",
      name |-> "Jane Doe", id |-> "S123", status |-> "failed", reason |-> "imported"]}

Foreign(logs) == {i \in 1..Len(logs) : TimestampError(logs[i]) # ""}

\* The file is written from outside the program: a foreign entry is added.
LogFileEdited ==
    /\ Cardinality(Foreign(LoadLogs)) < MaxForeign
    /\ \E entry \in ForeignEntries : log_file' = LoggedFile(entry)
    /\ last' = [op |-> "log_file_edited"]
    /\ UNCHANGED <<calls, now, max_requests, window_seconds, requests, tokens, issued_at,
                   tried, accepted, certificates>>

\* The detector's clock moves in whole minutes.
TickFraud ==
    /\ now + 60 <= MaxFraudClock
    /\ now' = now + 60
    /\ last' = [op |-> "tick"]
    /\ UNCHANGED <<calls, max_requests, window_seconds, requests, tokens, issued_at,
                   tried, accepted, log_file, certificates>>

----------------------------------------------------------------------------
(* Roster lookup (CSVHandler) and certificate renderer (CertificateGenerator) *)

None == [none |-> TRUE]

\* The rows of students.csv and of management.csv.
Students == {[Name |-> "Jane Doe", Student_Id |-> "S123"]}

Management == {[Name |-> "Ann Lee", Student_Id |-> "M7"]}

\* " ".join(value.strip().lower().split()), on the names of the model.
NormalizeName(value) ==
    CASE value = "Jane Doe" -> "jane doe"
      [] value = " jane  DOE" -> "jane doe"
      [] value = "Ann Lee" -> "ann lee"
      [] OTHER -> value

\* value.strip(), on the identifiers of the model.
NormalizeStudentId(value) ==
    CASE value = " S123" -> "S123"
      [] OTHER -> value

\* The first row whose normalized name and identifier both match, else None.
FindByNameAndId(rows, name, id_value) ==
    LET hits == {row \in rows :
                    /\ NormalizeName(row.Name) = NormalizeName(name)
                    /\ NormalizeStudentId(row.Student_Id) = NormalizeStudentId(id_value)}
    IN IF hits = {} THEN None ELSE CHOOSE row \in hits : TRUE

\* What a lookup finds in the state the roster store is in: "ok" (the file is
\* read), "missing" (no file), "error" (reading it raises another exception).
StoreStates == {"ok", "missing", "error"}

\* find_student_by_name_and_id: get_all_students raises FileNotFoundError for
\* a missing file, and the lookup lets it through.
FindStudent(name, student_id, store) ==
    CASE store = "missing" -> [raised |-> "FileNotFoundError"]
      [] store = "error" -> [raised |-> "Exception"]
      [] OTHER -> FindByNameAndId(Students, name, student_id)

\* find_management_by_name_and_id: a FileNotFoundError of get_all_management
\* is caught and answered with None.
FindManagement(name, mgmt_id, store) ==
    CASE store = "missing" -> None
      [] store = "error" -> [raised |-> "Exception"]
      [] OTHER -> FindByNameAndId(Management, name, mgmt_id)

\* generate_certificate_id / generate_management_certificate_id: the name
\* without special characters, spaces replaced by underscores.
CertificateId(row) ==
    CASE row.Name = "Jane Doe" -> "Jane_Doe"
      [] row.Name = "Ann Lee" -> "Ann_Lee"
      [] OTHER -> row.Name

CertificateExists_Never(certificate_id) == FALSE

\* cert_generator.certificate_exists(certificate_id)
CertificateExists(certificate_id) == certificate_id \in certificates

----------------------------------------------------------------------------
(* Admission gate: GET /certificate and GET /certificate-management *)

Lookup(endpoint, name, id_value, store) ==
    IF endpoint = "get_certificate"
        THEN FindStudent(name, id_value, store)
        ELSE FindManagement(name, id_value, store)

NotFoundReason(endpoint) ==
    IF endpoint = "get_certificate" THEN "Student not found" ELSE "Person not found"

Raised(found) == "raised" \in DOMAIN found

Admit_TokenNotChecked(endpoint, allowed, token_valid, found, force, render_ok) ==
    IF ~allowed THEN
        [stages |-> <<"rate_limit">>, code |-> 429, status |-> "failed",
         reason |-> "Rate limit exceeded", render |-> "none"]
    ELSE IF Raised(found) THEN
        [stages |-> <<"rate_limit", "csrf", "roster">>, code |-> 503,
         status |-> "failed", reason |-> "CSV not available", render |-> "none"]
    ELSE IF found = None THEN
        [stages |-> <<"rate_limit", "csrf", "roster">>, code |-> 404,
         status |-> "failed", reason |-> NotFoundReason(endpoint), render |-> "none"]
    ELSE
        [stages |-> <<"rate_limit", "csrf", "roster", "render">>,
         code |-> IF render_ok THEN 200 ELSE 500,
         status |-> IF render_ok THEN "success" ELSE "failed",
         reason |-> IF render_ok THEN "" ELSE "Generation error: Template not found",
         render |-> IF render_ok THEN "ok" ELSE "failed"]

Admit_TokenBeforeRateLimit(endpoint, allowed, token_valid, found, force, render_ok) ==
    IF ~token_valid THEN
        [stages |-> <<"csrf">>, code |-> 403, status |-> "failed",
         reason |-> "Invalid CSRF token", render |-> "none"]
    ELSE IF ~allowed THEN
        [stages |-> <<"csrf", "rate_limit">>, code |-> 429, status |-> "failed",
         reason |-> "Rate limit exceeded", render |-> "none"]
    ELSE
        [stages |-> <<"csrf", "rate_limit", "roster">>, code |-> 404,
         status |-> "failed", reason |-> NotFoundReason(endpoint), render |-> "none"]

Admit_RenderFailureNotLogged(endpoint, allowed, token_valid, found, force, render_ok) ==
    IF ~allowed THEN
        [stages |-> <<"rate_limit">>, code |-> 429, status |-> "failed",
         reason |-> "Rate limit exceeded", render |-> "none"]
    ELSE IF ~token_valid THEN
        [stages |-> <<"rate_limit", "csrf">>, code |-> 403, status |-> "failed",
         reason |-> "Invalid CSRF token", render |-> "none"]
    ELSE IF Raised(found) \/ found = None THEN
        [stages |-> <<"rate_limit", "csrf", "roster">>, code |-> 404,
         status |-> "failed", reason |-> NotFoundReason(endpoint), render |-> "none"]
    ELSE
        [stages |-> <<"rate_limit", "csrf", "roster", "render">>,
         code |-> IF render_ok THEN 200 ELSE 500, status |-> "success", reason |-> "",
         render |-> IF render_ok THEN "ok" ELSE "failed"]

\* The stages one generation request runs, the status code it answers with and
\* the outcome it logs. allowed and token_valid are the results of is_allowed
\* and validate_token, found is the result of the roster lookup, render_ok
\* tells whether a render, if one is made, succeeds.
Admit(endpoint, allowed, token_valid, found, force, render_ok) ==
    IF ~allowed THEN
        [stages |-> <<"rate_limit">>, code |-> 429, status |-> "failed",
         reason |-> "Rate limit exceeded", render |-> "none"]
    ELSE IF ~token_valid THEN
        [stages |-> <<"rate_limit", "csrf">>, code |-> 403, status |-> "failed",
         reason |-> "Invalid CSRF token", render |-> "none"]
    ELSE IF Raised(found) /\ found.raised = "FileNotFoundError" THEN
        [stages |-> <<"rate_limit", "csrf", "roster">>, code |-> 503,
         status |-> "failed", reason |-> "CSV not available", render |-> "none"]
    ELSE IF Raised(found) THEN
        [stages |-> <<"rate_limit", "csrf", "roster">>, code |-> 500,
         status |-> "failed", reason |-> "Permission denied", render |-> "none"]
    ELSE IF found = None THEN
        [stages |-> <<"rate_limit", "csrf", "roster">>, code |-> 404,
         status |-> "failed", reason |-> NotFoundReason(endpoint), render |-> "none"]
    ELSE IF (force \/ ~CertificateExists(CertificateId(found))) THEN
        [stages |-> <<"rate_limit", "csrf", "roster", "render">>,
         code |-> IF render_ok THEN 200 ELSE 500,
         status |-> IF render_ok THEN "success" ELSE "failed",
         reason |-> IF render_ok THEN "" ELSE "Generation error: Template not found",
         render |-> IF render_ok THEN "ok" ELSE "failed"]
    ELSE
        [stages |-> <<"rate_limit", "csrf", "roster">>, code |-> 200,
         status |-> "success", reason |-> "", render |-> "none"]

Ran(outcome, stage) == \E i \in 1..Len(outcome.stages) : outcome.stages[i] = stage

\* The name and identifier a request logs: the roster's once a record is
\* found and (for a student) the request has succeeded, else the request's.
LoggedSubject(endpoint, outcome, found, name, id_value) ==
    IF outcome.status = "success" \/ (endpoint # "get_certificate" /\ Ran(outcome, "render"))
        THEN <<found.Name, found.Student_Id>>
        ELSE <<name, id_value>>

\* The exception that leaves the handler uncaught, "" when none does:
\* log_request's when the write fails, else check_suspicious_activity's,
\* which is called once success is logged.
Uncaught(outcome, write, file, client_ip) ==
    LET fraud_check == Assess(file, client_ip, DefaultWindowMinutes, now) IN
    IF write # "ok" THEN WriteError(write)
    ELSE IF outcome.status = "success" /\ "raised" \in DOMAIN fraud_check
        THEN fraud_check.raised
    ELSE ""

\* The status code of the response: 500 for an uncaught exception.
Respond(outcome, raised) == IF raised # "" THEN 500 ELSE outcome.code

Generate_SlotOnSuccess(endpoint, client_ip, name, id_value, csrf_token, force, store, render_ok, write) ==
    LET key == Key(client_ip, endpoint)
        rate == AllowedResult(key)
        token_valid == ValidateResult(csrf_token, DefaultMaxAge)
        found == Lookup(endpoint, name, id_value, store)
        outcome == Admit(endpoint, rate.allowed, token_valid, found, force, render_ok)
        subject == LoggedSubject(endpoint, outcome, found, name, id_value)
        entry == LogEntry(client_ip, endpoint, subject[1], subject[2],
                          outcome.status, outcome.reason)
        raised == Uncaught(outcome, write, Written(write, entry), client_ip)
    IN
    /\ requests' = IF outcome.status = "success"
                      THEN Put(requests, key, AllowedTimes(key))
                      ELSE requests
    /\ IF Ran(outcome, "csrf")
          THEN /\ tokens' = ValidateTokens(csrf_token, DefaultMaxAge)
               /\ NoteValidation(csrf_token, token_valid)
          ELSE UNCHANGED <<tokens, tried, accepted>>
    /\ certificates' = IF Ran(outcome, "render") /\ render_ok
                          THEN certificates \cup {CertificateId(found)}
                          ELSE certificates
    /\ log_file' = Written(write, entry)
    /\ last' = [op |-> endpoint, client_ip |-> client_ip, name |-> name,
                id |-> id_value, stages |-> outcome.stages,
                code |-> Respond(outcome, raised), raised |-> raised,
                store |-> IF Ran(outcome, "roster") THEN store ELSE "unread",
                found |-> IF Ran(outcome, "roster") THEN found ELSE None,
                force |-> force, render |-> outcome.render, entry |-> entry,
                csrf_token |-> IF Ran(outcome, "csrf") THEN csrf_token ELSE 0]
    /\ UNCHANGED <<calls, now, max_requests, window_seconds, issued_at>>

Generate_TokenAfterRoster(endpoint, client_ip, name, id_value, csrf_token, force, store, render_ok, write) ==
    LET key == Key(client_ip, endpoint)
        rate == AllowedResult(key)
        token_valid == ValidateResult(csrf_token, DefaultMaxAge)
        found == Lookup(endpoint, name, id_value, store)
        outcome == Admit(endpoint, rate.allowed, token_valid, found, force, render_ok)
        subject == LoggedSubject(endpoint, outcome, found, name, id_value)
        entry == LogEntry(client_ip, endpoint, subject[1], subject[2],
                          outcome.status, outcome.reason)
        raised == Uncaught(outcome, write, Written(write, entry), client_ip)
    IN
    /\ requests' = Put(requests, key, AllowedTimes(key))
    /\ IF Ran(outcome, "csrf") /\ outcome.status = "success"
          THEN /\ tokens' = ValidateTokens(csrf_token, DefaultMaxAge)
               /\ NoteValidation(csrf_token, token_valid)
          ELSE UNCHANGED <<tokens, tried, accepted>>
    /\ certificates' = IF Ran(outcome, "render") /\ render_ok
                          THEN certificates \cup {CertificateId(found)}
                          ELSE certificates
    /\ log_file' = Written(write, entry)
    /\ last' = [op |-> endpoint, client_ip |-> client_ip, name |-> name,
                id |-> id_value, stages |-> outcome.stages,
                code |-> Respond(outcome, raised), raised |-> raised,
                store |-> IF Ran(outcome, "roster") THEN store ELSE "unread",
                found |-> IF Ran(outcome, "roster") THEN found ELSE None,
                force |-> force, render |-> outcome.render, entry |-> entry,
                csrf_token |-> IF Ran(outcome, "csrf") THEN csrf_token ELSE 0]
    /\ UNCHANGED <<calls, now, max_requests, window_seconds, issued_at>>

\* One generation request, from the rate-limit check to the response.
Generate(endpoint, client_ip, name, id_value, csrf_token, force, store, render_ok, write) ==
    LET key == Key(client_ip, endpoint)
        rate == AllowedResult(key)
        token_valid == ValidateResult(csrf_token, DefaultMaxAge)
        found == Lookup(endpoint, name, id_value, store)
        outcome == Admit(endpoint, rate.allowed, token_valid, found, force, render_ok)
        subject == LoggedSubject(endpoint, outcome, found, name, id_value)
        entry == LogEntry(client_ip, endpoint, subject[1], subject[2],
                          outcome.status, outcome.reason)
        raised == Uncaught(outcome, write, Written(write, entry), client_ip)
    IN
    /\ requests' = Put(requests, key, AllowedTimes(key))
    /\ IF Ran(outcome, "csrf")
          THEN /\ tokens' = ValidateTokens(csrf_token, DefaultMaxAge)
               /\ NoteValidation(csrf_token, token_valid)
          ELSE UNCHANGED <<tokens, tried, accepted>>
    /\ certificates' = IF Ran(outcome, "render") /\ render_ok
                          THEN certificates \cup {CertificateId(found)}
                          ELSE certificates
    /\ log_file' = Written(write, entry)
    /\ last' = [op |-> endpoint, client_ip |-> client_ip, name |-> name,
                id |-> id_value, stages |-> outcome.stages,
                code |-> Respond(outcome, raised), raised |-> raised,
                store |-> IF Ran(outcome, "roster") THEN store ELSE "unread",
                found |-> IF Ran(outcome, "roster") THEN found ELSE None,
                force |-> force, render |-> outcome.render, entry |-> entry,
                csrf_token |-> IF Ran(outcome, "csrf") THEN csrf_token ELSE 0]
    /\ UNCHANGED <<calls, now, max_requests, window_seconds, issued_at>>

GateIps == {"10.0.0.1"}

GateTokenInputs == 0..MaxGateTokens

StudentInputs == {<<" jane  DOE", " S123">>, <<"Jane Doe", "S999">>}

ManagementInputs == {<<"Ann Lee", "M7">>, <<"Jane Doe", "M7">>}

\* The inputs of a request that can change what it does. A request the rate
\* limiter refuses reads no token, and a token that was never issued is
\* unknown like token 0; the store is read only by a request whose token was
\* accepted; force and the renderer matter only once a record is found.
TokensFor(endpoint, client_ip) ==
    IF AllowedResult(Key(client_ip, endpoint)).allowed
        THEN {token \in GateTokenInputs : token = 0 \/ token \in DOMAIN issued_at}
        ELSE {0}

StoresFor(endpoint, client_ip, csrf_token) ==
    IF AllowedResult(Key(client_ip, endpoint)).allowed
       /\ ValidateResult(csrf_token, DefaultMaxAge)
        THEN StoreStates ELSE {"ok"}

RendersFor(endpoint, client_ip, csrf_token, subject, store) ==
    LET found == Lookup(endpoint, subject[1], subject[2], store) IN
    IF /\ AllowedResult(Key(client_ip, endpoint)).allowed
       /\ ValidateResult(csrf_token, DefaultMaxAge)
       /\ ~Raised(found)
       /\ found # None
        THEN BOOLEAN \X BOOLEAN ELSE {<<FALSE, TRUE>>}

GenerateCall(endpoint, subjects, writes) ==
    /\ Len(LoadLogs) - Cardinality(Foreign(LoadLogs)) < MaxGateLog
    /\ \E client_ip \in GateIps, subject \in subjects :
          \E csrf_token \in TokensFor(endpoint, client_ip) :
              \E store \in StoresFor(endpoint, client_ip, csrf_token) :
                  \E render \in RendersFor(endpoint, client_ip, csrf_token, subject, store) :
                      \E write \in writes :
                          Generate(endpoint, client_ip, subject[1], subject[2],
                                   csrf_token, render[1], store, render[2], write)

\* GET /certificate
get_certificate == GenerateCall("get_certificate", StudentInputs, {"ok"})

\* GET /certificate-management
get_management_certificate ==
    GenerateCall("get_management_certificate", ManagementInputs, {"ok"})

\* The gate's clock moves on by one rate window.
TickGate ==
    /\ now + window_seconds <= MaxGateClock
    /\ now' = now + window_seconds
    /\ last' = [op |-> "tick"]
    /\ UNCHANGED <<calls, max_requests, window_seconds, requests, tokens, issued_at,
                   tried, accepted, log_file, certificates>>

\* GET /csrf-token
get_csrf_token ==
    /\ NewToken <= MaxGateTokens
    /\ generate_token

----------------------------------------------------------------------------
(* Admin endpoints: GET /generate-all, /generate-all-management, /admin/logs
   and /admin/suspicious-ips *)

\* ADMIN_KEY = os.getenv("ADMIN_KEY", ""), where the environment sets no key.
ADMIN_KEY == ""

\* if ADMIN_KEY and admin_key != ADMIN_KEY: raise HTTPException(403)
Authorized(admin_key) == ~(ADMIN_KEY # "" /\ admin_key # ADMIN_KEY)

\* GET /generate-all and GET /generate-all-management: every row of the
\* roster whose certificate is not stored is rendered; an exception of the
\* roster or of the renderer is answered with 500.
generate_all(endpoint, rows) ==
    \E admin_key \in {"", "guess"}, store \in StoreStates, render_ok \in BOOLEAN :
        LET absent == {CertificateId(row) :
                          row \in {r \in rows : ~CertificateExists(CertificateId(r))}}
            code == IF ~Authorized(admin_key) THEN 403
                    ELSE IF store # "ok" \/ (absent # {} /\ ~render_ok) THEN 500
                    ELSE 200
        IN
        /\ certificates' = IF code = 200 THEN certificates \cup absent ELSE certificates
        /\ last' = [op |-> endpoint, admin_key |-> admin_key, code |-> code,
                    generated |-> IF code = 200 THEN absent ELSE {},
                    logs |-> <<>>, suspicious_ips |-> {}]
        /\ UNCHANGED <<calls, now, max_requests, window_seconds, requests, tokens,
                       issued_at, tried, accepted, log_file>>

\* GET /admin/logs
get_audit_logs ==
    \E admin_key \in {"", "guess"} :
        /\ last' = [op |-> "get_audit_logs", admin_key |-> admin_key,
                    code |-> IF Authorized(admin_key) THEN 200 ELSE 403,
                    generated |-> {},
                    logs |-> IF Authorized(admin_key) THEN GetLogs(NoIp, 500) ELSE <<>>,
                    suspicious_ips |-> {}]
        /\ UNCHANGED <<calls, now, max_requests, window_seconds, requests, tokens,
                       issued_at, tried, accepted, log_file, certificates>>

\* GET /admin/suspicious-ips: the verdicts of the IPs of the log that are
\* suspicious within 60 minutes (the response lists them by failed_attempts,
\* highest first); an exception of the detector is not caught.
get_suspicious_ips ==
    \E admin_key \in {"", "guess"} :
        LET all_logs == GetLogs(NoIp, 1000)
            ips == {all_logs[i].ip_address : i \in 1..Len(all_logs)}
            checks == {CheckSuspiciousActivity(ip, 60, now) : ip \in ips}
            raised == \E check \in checks : "raised" \in DOMAIN check
        IN
        /\ last' = [op |-> "get_suspicious_ips", admin_key |-> admin_key,
                    code |-> IF ~Authorized(admin_key) THEN 403
                             ELSE IF raised THEN 500 ELSE 200,
                    generated |-> {}, logs |-> <<>>,
                    suspicious_ips |-> IF ~Authorized(admin_key) \/ raised THEN {}
                                       ELSE {check \in checks : check.suspicious}]
        /\ UNCHANGED <<calls, now, max_requests, window_seconds, requests, tokens,
                       issued_at, tried, accepted, log_file, certificates>>

\* GET /csrf-token, while the page may be loaded again.
RenderToken ==
    /\ NewToken <= MaxRenderTokens
    /\ generate_token

\* A generation request of a client that may come back with a new token:
\* the store is readable and the log file is written.
RepeatCall(endpoint, subjects) ==
    /\ Len(LoadLogs) < MaxRenderLog
    /\ \E subject \in subjects, csrf_token \in 0..MaxRenderTokens :
          \E force \in BOOLEAN, render_ok \in BOOLEAN :
              Generate(endpoint, "10.0.0.1", subject[1], subject[2], csrf_token,
                       force, "ok", render_ok, "ok")

----------------------------------------------------------------------------
(* The state after construction. *)

NoLogFile == [exists |-> FALSE, valid |-> FALSE, logs |-> <<>>]

Init ==
    /\ now = 0
    /\ max_requests = ConfiguredMaxRequests
    /\ window_seconds = ConfiguredWindowSeconds
    /\ requests = EmptyMap
    /\ tokens = EmptyMap
    /\ issued_at = EmptyMap
    /\ tried = {}
    /\ accepted = EmptyMap
    /\ log_file = NoLogFile
    /\ certificates = {}
    /\ calls = NoCalls
    /\ last = [op |-> "init"]

NextToken ==
    \/ generate_token
    \/ ValidateTokenCall
    \/ TickToken

SpecToken == Init /\ [][NextToken]_vars

\* A rate limiter constructed with any limit and window: RateLimiter(n, w).
InitRate ==
    /\ now = 0
    /\ max_requests \in 1..MaxRequests
    /\ window_seconds \in 1..MaxWindow
    /\ requests = EmptyMap
    /\ tokens = EmptyMap
    /\ issued_at = EmptyMap
    /\ tried = {}
    /\ accepted = EmptyMap
    /\ log_file = NoLogFile
    /\ certificates = {}
    /\ calls = NoCalls
    /\ last = [op |-> "init"]

NextRate ==
    \/ IsAllowedCall
    \/ TickRate

SpecRate == InitRate /\ [][NextRate]_vars

\* The gate over a log file that is also written from outside the program.
NextEdited ==
    \/ get_csrf_token
    \/ get_certificate
    \/ get_management_certificate
    \/ LogFileEdited
    \/ LogFileLost
    \/ TickGate

SpecEdited == Init /\ [][NextEdited]_vars

\* The gate over a disk where the write of the log file may fail.
NextDisk ==
    \/ get_csrf_token
    \/ GenerateCall("get_certificate", StudentInputs, WriteOutcomes)
    \/ GenerateCall("get_management_certificate", ManagementInputs, WriteOutcomes)
    \/ LogFileLost
    \/ TickGate

SpecDisk == Init /\ [][NextDisk]_vars

\* Callers of is_allowed that run at the same time, at one instant.
NextRateThreads == IsAllowedStep

SpecRateThreads == InitRate /\ [][NextRateThreads]_vars

\* Callers of validate_token that run at the same time.
NextTokenThreads == generate_token \/ ValidateStep \/ TickToken

SpecTokenThreads == Init /\ [][NextTokenThreads]_vars

\* Callers of log_request that run at the same time.
NextLogThreads == LogStep \/ TickLog

SpecLogThreads == Init /\ [][NextLogThreads]_vars

NextDay == LogRequestCall \/ GetLogsCall \/ TickDay

SpecDay == Init /\ [][NextDay]_vars

NextFraud == DetectorLogCall \/ CheckCall \/ TickFraud

SpecFraud == Init /\ [][NextFraud]_vars

NextVerdict == VerdictLogCall \/ CheckCall

SpecVerdict == Init /\ [][NextVerdict]_vars

NextForeign == LogRequestCall \/ LogFileEdited \/ CheckCall \/ TickLog

SpecForeign == Init /\ [][NextForeign]_vars

NextLog ==
    \/ LogRequestCall
    \/ GetLogsCall
    \/ LogFileLost
    \/ LogFileCorrupted
    \/ TickLog

SpecLog == Init /\ [][NextLog]_vars

\* The detector and the log query next to the components whose state they
\* could reach: the token manager, the rate limiter and the request logger.
NextReaders ==
    \/ get_csrf_token
    \/ is_allowed("10.0.0.1", "get_certificate")
    \/ DetectorLogCall
    \/ GetLogsCall
    \/ CheckCall

SpecReaders == Init /\ [][NextReaders]_vars

NextAdmin ==
    \/ LogRequestCall
    \/ generate_all("generate_all_certificates", Students)
    \/ generate_all("generate_all_management_certificates", Management)
    \/ get_audit_logs
    \/ get_suspicious_ips

SpecAdmin == Init /\ [][NextAdmin]_vars

NextRender ==
    \/ RenderToken
    \/ RepeatCall("get_certificate", StudentInputs)
    \/ RepeatCall("get_management_certificate", ManagementInputs)

SpecRender == Init /\ [][NextRender]_vars

Next ==
    \/ get_csrf_token
    \/ get_certificate
    \/ get_management_certificate
    \/ LogFileLost
    \/ TickGate

Spec == Init /\ [][Next]_vars

----------------------------------------------------------------------------
(* Claims about the rate limiter, checked under SpecRate. *)

\* C3: rate-limiter count invariant. After any sequence of is_allowed calls
\* with a clock that never runs backwards, every key retains at most
\* max_requests timestamps.
C3_CountAtMostMax ==
    \A key \in DOMAIN requests : Len(requests[key]) <= max_requests

\* A key that is full, and a call on it that was refused.
C3_Witness ==
    /\ last.op = "is_allowed"
    /\ ~last.allowed
    /\ Len(requests[last.key]) = max_requests
    /\ \E key \in DOMAIN requests : key # last.key /\ Len(requests[key]) > 0

\* Every timestamp the key held when is_allowed was last called is younger
\* than the window.
LastAllInsideWindow ==
    \A i \in 1..Len(last.before) : last.at - last.before[i] < window_seconds

\* The clock has advanced past window_seconds since every one of them.
LastAllPastWindow ==
    \A i \in 1..Len(last.before) : last.at - last.before[i] > window_seconds

\* C4: rate window correctness. With max_requests = N, a call on a key that
\* holds N permitted calls all inside the window is refused; a call made once
\* the clock is past window_seconds since all of them is permitted.
C4_WindowCorrectness ==
    last.op = "is_allowed" =>
        /\ (Len(last.before) = max_requests /\ LastAllInsideWindow) => ~last.allowed
        /\ LastAllPastWindow => last.allowed

\* A key that was full is permitted again after its window has passed.
C4_Witness ==
    /\ last.op = "is_allowed"
    /\ Len(last.before) = max_requests
    /\ LastAllPastWindow
    /\ last.allowed
    /\ requests[last.key] = <<last.at>>

----------------------------------------------------------------------------
(* Claims about the token manager, checked under SpecToken. *)

\* The age, at the last validate_token call, of the token it was called on.
LastTokenAge == now - issued_at[last.token]

\* C1: token single-use. For every token generate_token returned, the first
\* validate_token call on it, when made within max_age of its issuance, returns
\* True, every later validate_token call on it returns False, and so no token
\* is accepted more than once.
C1_TokenSingleUse ==
    /\ \A t \in DOMAIN accepted : accepted[t] <= 1
    /\ (last.op = "validate_token" /\ last.token \in DOMAIN issued_at) =>
          /\ (last.first /\ LastTokenAge <= last.max_age) => last.result = TRUE
          /\ ~last.first => last.result = FALSE

\* A replay: a token that was accepted once is validated again and refused.
C1_Witness ==
    /\ last.op = "validate_token"
    /\ last.token \in DOMAIN issued_at
    /\ ~last.first
    /\ LastTokenAge <= last.max_age
    /\ accepted[last.token] = 1
    /\ last.result = FALSE

\* C2: token expiry. validate_token returns True exactly for a token that is
\* in the token map and whose age now - issued_at is at most max_age; a token
\* older than max_age is refused, also on its first validation.
C2_TokenExpiry ==
    (last.op = "validate_token" /\ last.token \in DOMAIN issued_at) =>
        /\ LastTokenAge > last.max_age => last.result = FALSE
        /\ last.result = TRUE <=> (last.known /\ LastTokenAge <= last.max_age)

\* A first validation that comes too late and is refused.
C2_Witness ==
    /\ last.op = "validate_token"
    /\ last.token \in DOMAIN issued_at
    /\ last.first /\ last.known
    /\ LastTokenAge > last.max_age
    /\ last.result = FALSE

----------------------------------------------------------------------------
(* Claims about the request logger, checked under SpecLog. *)

\* C8: the audit log is append-only. A log_request call leaves every entry the
\* file held in place and unchanged and adds its one entry at the end; a
\* get_logs call leaves the file as it is.
C8_AppendOnly ==
    [][/\ (last'.op = "log_request" /\ log_file.exists /\ log_file.valid) =>
            /\ log_file'.exists /\ log_file'.valid
            /\ Len(log_file'.logs) = Len(log_file.logs) + 1
            /\ \A i \in 1..Len(log_file.logs) : log_file'.logs[i] = log_file.logs[i]
            /\ log_file'.logs[Len(log_file'.logs)] = last'.entry
       /\ last'.op = "get_logs" => log_file' = log_file]_vars

\* An entry appended behind two earlier ones, which are still there.
C8_Witness ==
    /\ last.op = "log_request"
    /\ log_file.exists /\ log_file.valid
    /\ Len(log_file.logs) = 3
    /\ log_file.logs[3] = last.entry
    /\ log_file.logs[1] # log_file.logs[3]

\* The limit get_logs has when the caller passes none.
DefaultLimit == 100

\* C9: append then query. After log_request appends entry E, get_logs returns E
\* as its first element, also when E's timestamp equals that of an earlier
\* entry; and a get_logs call repeated with no append in between returns the
\* same list.
C9_AppendedEntryFirst ==
    /\ last.op = "log_request" =>
          /\ GetLogs(NoIp, DefaultLimit)[1] = last.entry
          /\ GetLogs(last.entry.ip_address, DefaultLimit)[1] = last.entry
    /\ last.op = "get_logs" => GetLogs(last.ip_address, last.limit) = last.result

\* The entries of the file that a get_logs call with this filter selects.
Matching(ip_address) ==
    IF log_file.exists /\ log_file.valid
        THEN SelectSeq(log_file.logs,
                       LAMBDA log : ip_address = NoIp \/ log.ip_address = ip_address)
        ELSE <<>>

\* How often an entry occurs in a list.
Count(logs, log) == Cardinality({i \in 1..Len(logs) : logs[i] = log})

\* C10: get_logs(identity, limit) returns at most limit entries, all of the
\* identity when one is given, ordered by timestamp from most recent to oldest,
\* and they are the limit most recent of the matching entries; with no file it
\* returns the empty list.
C10_GetLogsResult ==
    last.op = "get_logs" =>
        LET result == last.result
            matching == Matching(last.ip_address)
        IN /\ Len(result) = Min(last.limit, Len(matching))
           /\ last.ip_address # NoIp =>
                 \A i \in 1..Len(result) : result[i].ip_address = last.ip_address
           /\ \A i, j \in 1..Len(result) :
                 i < j => FromIsoFormat(result[i].timestamp)
                            >= FromIsoFormat(result[j].timestamp)
           /\ \A i \in 1..Len(result) :
                 Count(result, result[i]) <= Count(matching, result[i])
           /\ \A k \in 1..Len(matching) :
                 Count(result, matching[k]) < Count(matching, matching[k]) =>
                     \A i \in 1..Len(result) :
                         FromIsoFormat(result[i].timestamp)
                             >= FromIsoFormat(matching[k].timestamp)
           /\ ~log_file.exists => result = <<>>

\* A query for one identity that has to leave out an older entry of that
\* identity, over a file that also holds an entry of another identity.
C10_Witness ==
    /\ last.op = "get_logs"
    /\ last.ip_address # NoIp
    /\ Len(last.result) = last.limit
    /\ last.limit >= 1
    /\ Len(Matching(last.ip_address)) > last.limit
    /\ Len(Matching(NoIp)) > Len(Matching(last.ip_address))
    /\ \E k \in 1..Len(log_file.logs) :
          FromIsoFormat(log_file.logs[k].timestamp)
              < FromIsoFormat(last.result[1].timestamp)

----------------------------------------------------------------------------
(* Claims about the admission gate, checked under Spec. *)

\* A step of one of the two generation endpoints.
GenerationStep == last'.op \in Endpoints

\* The rate-limit key of that request.
StepKey == Key(last'.client_ip, last'.op)

\* The timestamps the key of the request held inside the window before it.
InsideWindow(key) ==
    IF key \in DOMAIN requests
        THEN Cardinality({i \in 1..Len(requests[key]) :
                            now - requests[key][i] < window_seconds})
        ELSE 0

\* The request recorded its own timestamp in the rate limiter: it was permitted.
StepPermitted ==
    /\ InsideWindow(StepKey) < max_requests
    /\ Len(requests'[StepKey]) = InsideWindow(StepKey) + 1
    /\ requests'[StepKey][Len(requests'[StepKey])] = now

\* The request took a live token out of the token map: its token validated.
StepTokenConsumed ==
    \E token \in DOMAIN tokens :
        /\ now - tokens[token] <= DefaultMaxAge
        /\ tokens' = Del(tokens, token)
        /\ accepted'[token] = accepted[token] + 1

\* The roster resolved the identity of the request to one of its records.
StepResolved == last'.found \in Students \cup Management

\* The request added exactly its own entry to the audit log.
StepLoggedOnce ==
    /\ log_file'.exists /\ log_file'.valid
    /\ Len(log_file'.logs) = Len(LoadLogs) + 1
    /\ \A i \in 1..Len(LoadLogs) : log_file'.logs[i] = LoadLogs[i]
    /\ log_file'.logs[Len(log_file'.logs)] = last'.entry
    /\ last'.entry.ip_address = last'.client_ip
    /\ last'.entry.endpoint = last'.op
    /\ last'.entry.timestamp = IsoFormat(now)

StageOrder == <<"rate_limit", "csrf", "roster", "render">>

\* C6: admission ordering. The stages of a generation request run in the order
\* rate limit, token, roster, render, each only if every earlier one passed:
\* the token is validated only for a permitted request, the roster is read
\* only after the token validated, and the renderer is invoked only for a
\* permitted request with a validated token and a resolved identity.
C6_AdmissionOrdering ==
    [][GenerationStep =>
          LET n == Len(last'.stages) IN
          /\ n \in 1..4
          /\ last'.stages = SubSeq(StageOrder, 1, n)
          /\ n >= 2 <=> StepPermitted
          /\ n >= 3 <=> (StepPermitted /\ StepTokenConsumed)
          /\ n >= 3 => last'.found # None \/ last'.code = 404
          /\ n = 4 => (StepPermitted /\ StepTokenConsumed /\ StepResolved)
          /\ last'.render # "none" <=> n = 4
          /\ certificates' # certificates => n = 4]_vars

\* A request that got as far as the renderer.
C6_Witness ==
    /\ last.op = "get_management_certificate"
    /\ last.stages = StageOrder
    /\ last.render = "ok"
    /\ last.code = 200
    /\ "Ann_Lee" \in certificates

\* C7: every generation request appends exactly one audit entry: with status
\* success exactly when the rate limit, the token, the roster lookup and the
\* render stage all passed, otherwise with status failed and a reason that is
\* not empty.
C7_OneEntryPerRequest ==
    [][GenerationStep =>
          /\ StepLoggedOnce
          /\ last'.entry.status \in {"success", "failed"}
          /\ last'.entry.status = "success" <=>
                /\ StepPermitted
                /\ StepTokenConsumed
                /\ StepResolved
                /\ last'.render # "failed"
          /\ last'.entry.status = "success" <=> last'.code = 200
          /\ last'.entry.status = "success" => last'.entry.reason = ""
          /\ last'.entry.status = "failed" => last'.entry.reason # ""]_vars

\* A request that failed in the renderer, logged as failed with its reason.
C7_Witness ==
    /\ last.op = "get_certificate"
    /\ last.render = "failed"
    /\ last.code = 500
    /\ log_file.exists /\ log_file.valid
    /\ log_file.logs[Len(log_file.logs)] = last.entry
    /\ last.entry.status = "failed"
    /\ last.entry.reason # ""

----------------------------------------------------------------------------
(* Claims about the fraud detector, checked under SpecFraud, SpecVerdict and
   SpecForeign. *)

\* The last call was a check_suspicious_activity call that returned a verdict.
LastVerdict ==
    /\ last.op = "check_suspicious_activity"
    /\ "raised" \notin DOMAIN last.result

\* The entries of the identity of the last check that are well-formed, not
\* older than its window_minutes, and of the given statuses.
WithinWindow(statuses) ==
    {i \in 1..Len(LoadLogs) :
        /\ LoadLogs[i].ip_address = last.ip_address
        /\ TimestampError(LoadLogs[i]) = ""
        /\ now - FromIsoFormat(LoadLogs[i].timestamp) <= last.window_minutes * 60
        /\ LoadLogs[i].status \in statuses}

\* C11: anomaly window. check_suspicious_activity(identity, window_minutes)
\* counts only the entries of that identity whose timestamp lies within
\* window_minutes of the current moment: an older entry is in none of
\* recent_requests, failed_attempts and successful_downloads.
C11_AnomalyWindow ==
    LastVerdict =>
        /\ last.result.recent_requests = Cardinality(WithinWindow({"failed", "success"}))
        /\ last.result.failed_attempts = Cardinality(WithinWindow({"failed"}))
        /\ last.result.successful_downloads = Cardinality(WithinWindow({"success"}))

\* C12: anomaly thresholds. The verdict is suspicious exactly when more than 5
\* failed or more than 3 successful entries were retained; the reason names
\* the failures when there are more than 5 of them, whatever the successes,
\* the successes when only they are more than 3, and is normal otherwise, as
\* for 2 failed and 2 successful entries.
C12_AnomalyThresholds ==
    LastVerdict =>
        LET failed_count == last.result.failed_attempts
            success_count == last.result.successful_downloads
        IN /\ failed_count + success_count = last.result.recent_requests
           /\ last.result.suspicious <=> (failed_count > 5 \/ success_count > 3)
           /\ failed_count > 5 => last.result.reason = "Multiple failed attempts"
           /\ (failed_count <= 5 /\ success_count > 3) =>
                 last.result.reason = "Too many successful downloads in short time"
           /\ (failed_count <= 5 /\ success_count <= 3) => last.result.reason = "Normal"
           /\ (failed_count = 2 /\ success_count = 2) => ~last.result.suspicious

\* A verdict over 6 failed and 4 successful entries: both rules match and the
\* reason is the one of the failures.
C12_Witness ==
    /\ LastVerdict
    /\ last.result.failed_attempts = 6
    /\ last.result.successful_downloads = 4
    /\ last.result.suspicious
    /\ last.result.reason = "Multiple failed attempts"

\* C13: check_suspicious_activity returns a verdict for every content of the
\* log: an entry whose timestamp is malformed or missing is left out of the
\* recent window and the assessment does not fail.
C13_MalformedTimestampExcluded ==
    last.op = "check_suspicious_activity" =>
        /\ "raised" \notin DOMAIN last.result
        /\ last.result.recent_requests <=
              Cardinality({i \in 1..Len(LoadLogs) :
                              /\ LoadLogs[i].ip_address = last.ip_address
                              /\ TimestampError(LoadLogs[i]) = ""})

\* C14: the anomaly detector never blocks or changes the response. A
\* generation request that passed every stage and logged success is answered
\* with the PDF (status 200), whatever the detector returns and also when the
\* detector fails.
C14_DetectorNeverBlocks ==
    [][(GenerationStep /\ last'.entry.status = "success" /\ StepLoggedOnce) =>
          /\ last'.code = 200
          /\ last'.raised = ""]_vars

----------------------------------------------------------------------------
(* Claims about the request logger's failure handling, checked under SpecLog. *)

WorkingLogCode ==
    LET n == Len(last'.stages) IN
    IF n = 1 THEN 429
    ELSE IF n = 2 THEN 403
    ELSE IF n = 4 THEN (IF last'.render = "ok" THEN 200 ELSE 500)
    ELSE IF last'.found = None THEN 404
    ELSE IF Raised(last'.found)
        THEN (IF last'.found.raised = "FileNotFoundError" THEN 503 ELSE 500)
    ELSE 200

\* C19: logging never fails a request. When the write of the log file fails,
\* log_request raises nothing and the generation request gives the response
\* it would give with a working log.
C19_LoggingNeverFailsRequest ==
    [][GenerationStep =>
          /\ last'.raised # "OSError"
          /\ last'.code = WorkingLogCode]_vars

\* C20: day partitioning. Every entry is appended to the partition of the
\* calendar day on which log_request is called, also when the process was
\* started on an earlier day, and get_logs called on day D reads the partition
\* of day D.
C20_DayPartitioning ==
    /\ last.op = "log_request" =>
          /\ log_file.logs[Len(log_file.logs)] = last.entry
          /\ DayOf(FromIsoFormat(last.entry.timestamp)) = LogFileDay
    /\ last.op = "get_logs" => DayOf(now) = LogFileDay

----------------------------------------------------------------------------
(* Claims about callers that run at the same time, checked under
   SpecRateThreads, SpecTokenThreads and SpecLogThreads. *)

\* The calls of all callers that have returned, and what one returned.
Returned ==
    {call \in Callers \X (1..MaxThreadCalls) : call[2] <= Len(calls[call[1]].returned)}

ResultOf(call) == calls[call[1]].returned[call[2]]

\* C15: rate limiter under concurrency. When several callers run is_allowed
\* for one key at the same time, the key never retains more than max_requests
\* timestamps and no accepted timestamp is lost: while none is older than the
\* window, the key retains one timestamp for every call that returned True.
C15_RateLimiterAtomic ==
    /\ Len(RequestsOf(SharedKey)) <= max_requests
    /\ Cardinality({call \in Returned : ResultOf(call).allowed})
          <= Len(RequestsOf(SharedKey))

\* C16: token manager under concurrency. When several requests validate one
\* token at the same time, at most one validate_token call returns True and
\* every other call returns False: none raises.
C16_TokenAtomic ==
    /\ \A token \in DOMAIN issued_at :
          Cardinality({call \in Returned :
                          /\ ResultOf(call).token = token
                          /\ "value" \in DOMAIN ResultOf(call)
                          /\ ResultOf(call).value}) <= 1
    /\ \A call \in Returned : "raised" \notin DOMAIN ResultOf(call)

\* C17: audit log under concurrency. Appends to the file are serialized: once
\* the concurrent log_request calls have completed, the file holds the entry
\* of every one of them; no interleaving of their read-modify-write steps
\* loses an entry.
C17_LogAppendsSerialized ==
    (\A caller \in Callers : calls[caller].pc = "idle") =>
        /\ Returned # {} => log_file.exists /\ log_file.valid
        /\ Cardinality(Returned) <= Len(LoadLogs)
        /\ \A call \in Returned :
              \E k \in 1..Len(LoadLogs) : LoadLogs[k] = ResultOf(call).entry

----------------------------------------------------------------------------
(* Claims about the response signals and the roster, checked under Spec. *)

\* C21: distinct response signals. A generation request answers 429 exactly
\* when the rate limiter rejects it, 403 when the token is rejected, 404 when
\* the roster has no matching record, 503 when the roster store is missing and
\* 500 when rendering fails; no two of these causes share a status code, and a
\* request with no failure is answered with the PDF (200).
C21_DistinctSignals ==
    [][(GenerationStep /\ last'.raised = "") =>
          LET n == Len(last'.stages) IN
          /\ last'.code = 429 <=> n = 1
          /\ last'.code = 403 <=> n = 2
          /\ last'.code = 404 <=> (n = 3 /\ last'.store = "ok" /\ last'.found = None)
          /\ last'.code = 503 <=> (n = 3 /\ last'.store = "missing")
          /\ last'.render = "failed" => last'.code = 500
          /\ last'.code = 500 => (last'.render = "failed" \/ last'.store = "error")
          /\ last'.code = 200 <=> (StepResolved /\ last'.render # "failed")]_vars

\* C22: a missing roster store is an error and never an absent record. For
\* the student lookup and for the management lookup a missing roster file
\* makes the generation request answer 503, not 404.
C22_MissingStoreIsError ==
    [][(GenerationStep /\ last'.raised = "" /\ last'.store = "missing") =>
          /\ last'.code = 503
          /\ last'.found # None]_vars

\* C23: a generation request that fails because the roster store is
\* unavailable is surfaced without an audit log entry: the log is the same
\* before and after the request.
C23_StoreFailureNotLogged ==
    [][(GenerationStep /\ last'.store = "missing") => log_file' = log_file]_vars

\* C24: idempotent render. A generation request that resolved its identity
\* invokes the renderer exactly when force is set or no certificate is stored
\* under the resolved certificate identifier; a request with force unset that
\* finds the certificate renders nothing, stores nothing, logs success and,
\* when nothing is raised after the render stage, is answered with 200.
C24_IdempotentRender ==
    [][(GenerationStep /\ StepResolved) =>
          LET stored == CertificateId(last'.found) \in certificates IN
          /\ last'.render # "none" <=> (last'.force \/ ~stored)
          /\ (~last'.force /\ stored) =>
                /\ certificates' = certificates
                /\ last'.entry.status = "success"
                /\ last'.entry.name = last'.found.Name
                /\ last'.raised = "" => (last'.code = 200 /\ StepLoggedOnce)]_vars

\* A repeated request without force: the stored certificate is served.
C24_Witness ==
    /\ last.op = "get_certificate"
    /\ last.found \in Students
    /\ ~last.force
    /\ last.render = "none"
    /\ last.stages = <<"rate_limit", "csrf", "roster">>
    /\ CertificateId(last.found) \in certificates
    /\ last.code = 200
    /\ last.entry.status = "success"

----------------------------------------------------------------------------
(* Claim about the admin endpoints, checked under SpecAdmin. *)

\* C25: the admin endpoints are gated by the shared secret. A request to
\* generate-all, generate-all-management, admin/logs or admin/suspicious-ips
\* whose admin_key differs from the configured ADMIN_KEY is answered with
\* 403, generates no certificate and returns no log data.
C25_AdminGated ==
    [][(/\ last'.op \in {"generate_all_certificates",
                         "generate_all_management_certificates",
                         "get_audit_logs", "get_suspicious_ips"}
        /\ last'.admin_key # ADMIN_KEY) =>
          /\ last'.code = 403
          /\ certificates' = certificates
          /\ last'.generated = {}
          /\ last'.logs = <<>>
          /\ last'.suspicious_ips = {}]_vars

----------------------------------------------------------------------------
(* Claims about one is_allowed call, checked under SpecRate. *)

\* C26: a rejected is_allowed call records nothing. When the pruned sequence
\* of the key already holds max_requests timestamps the call returns
\* (False, 0), and after a rejected call the sequence of the key is the pruned
\* sequence: it has not grown and holds no timestamp for the call.
C26_RejectedRecordsNothing ==
    last.op = "is_allowed" =>
        LET pruned == Prune(last.before, last.at, window_seconds) IN
        /\ Len(pruned) = max_requests => (~last.allowed /\ last.remaining = 0)
        /\ ~last.allowed =>
              /\ last.remaining = 0
              /\ requests[last.key] = pruned
              /\ Len(requests[last.key]) <= Len(last.before)

\* A call rejected at a later instant than every call the key has recorded.
C26_Witness ==
    /\ last.op = "is_allowed"
    /\ ~last.allowed
    /\ max_requests = 2
    /\ requests[last.key] = last.before
    /\ Len(requests[last.key]) = 2
    /\ \A i \in 1..2 : requests[last.key][i] < last.at

\* C27: a permitted is_allowed call appends exactly one timestamp, equal to
\* now, to the pruned sequence of its key and returns
\* (True, max_requests - new_count) with new_count the length after the
\* append; the remaining value lies in 0..max_requests - 1 and is 0 exactly
\* when the call is the max_requests-th one retained for the key.
C27_PermittedAppendsNow ==
    last.op = "is_allowed" =>
        LET pruned == Prune(last.before, last.at, window_seconds)
            new_count == Len(requests[last.key])
        IN
        /\ Len(pruned) < max_requests => last.allowed
        /\ last.allowed =>
              /\ requests[last.key] = Append(pruned, last.at)
              /\ new_count = Len(pruned) + 1
              /\ last.remaining = max_requests - new_count
              /\ last.remaining \in 0..(max_requests - 1)
              /\ last.remaining = 0 <=> new_count = max_requests

\* The second accepted call of a window of two: nothing remains.
C27_Witness ==
    /\ last.op = "is_allowed"
    /\ last.allowed
    /\ max_requests = 2
    /\ last.remaining = 0
    /\ Len(last.before) = 1
    /\ requests[last.key] = Append(last.before, last.at)

\* C28: pruning is monotonic. Each is_allowed call drops exactly the
\* timestamps of its key that are older than now - window_seconds and retains
\* every other one: a timestamp exactly window_seconds old is retained and
\* still counted.
C28_PruningMonotonic ==
    last.op = "is_allowed" =>
        LET kept == SelectSeq(last.before,
                              LAMBDA req_time : ~(req_time < last.at - window_seconds))
        IN
        /\ requests[last.key] = IF last.allowed THEN Append(kept, last.at) ELSE kept
        /\ last.allowed <=> Len(kept) < max_requests

----------------------------------------------------------------------------
(* Claim about one validate_token call, checked under SpecToken. *)

\* C29: token removal. A validate_token call on a known token removes that
\* token from the token map, whether it returns True or returns False for
\* expiry, and removes or changes no other token; a call on an unknown token
\* returns False and leaves the token map unchanged.
C29_TokenRemoval ==
    [][last'.op = "validate_token" =>
          LET token == last'.token IN
          /\ last'.known <=> token \in DOMAIN tokens
          /\ token \in DOMAIN tokens =>
                /\ DOMAIN tokens' = DOMAIN tokens \ {token}
                /\ \A other \in DOMAIN tokens' : tokens'[other] = tokens[other]
                /\ last'.result <=> now - tokens[token] <= last'.max_age
          /\ token \notin DOMAIN tokens =>
                /\ ~last'.result
                /\ tokens' = tokens]_vars

\* An expired token was refused and removed while another token stays live.
C29_Witness ==
    /\ last.op = "validate_token"
    /\ last.known
    /\ ~last.result
    /\ last.token \notin DOMAIN tokens
    /\ now - issued_at[last.token] > last.max_age
    /\ DOMAIN tokens # {}

----------------------------------------------------------------------------
(* Claim about the readers of the log, checked under SpecReaders. *)

\* C30: the anomaly detector and the log query are read-only. A
\* check_suspicious_activity call and a get_logs call leave the log file, the
\* rate limiter's map and the token map unchanged.
C30_ReadersReadOnly ==
    [][last'.op \in {"get_logs", "check_suspicious_activity"} =>
          /\ log_file' = log_file
          /\ requests' = requests
          /\ tokens' = tokens]_vars

\* The detector has counted the requests of an IP while a token is live and
\* the rate limiter holds timestamps; the log still holds what it counted.
C30_Witness ==
    /\ last.op = "check_suspicious_activity"
    /\ "raised" \notin DOMAIN last.result
    /\ last.result.recent_requests = 2
    /\ Len(LoadLogs) = 3
    /\ DOMAIN tokens # {}
    /\ DOMAIN requests # {}

----------------------------------------------------------------------------
(* Claims about lock-out and keys of the rate limiter, checked under SpecRate. *)

\* C31: rejected calls do not prolong a lock-out. A rejected is_allowed call
\* leaves the retained timestamps of every key unchanged, so a key at its
\* limit is rejected while its oldest timestamp is younger than
\* window_seconds and is permitted again as soon as that timestamp is
\* window_seconds old, whatever was retried in between.
C31_RejectedKeepsLockout ==
    [][last'.op = "is_allowed" =>
          LET held == RequestsOf(last'.key) IN
          /\ ~last'.allowed => requests' = requests
          /\ (Len(held) = max_requests /\ now - held[1] < window_seconds)
                => ~last'.allowed
          /\ (Len(held) = max_requests /\ now - held[1] >= window_seconds)
                => last'.allowed]_vars

\* A full key is permitted at the instant its oldest timestamp is
\* window_seconds old; the younger timestamp is still retained.
C31_Witness ==
    /\ last.op = "is_allowed"
    /\ last.allowed
    /\ max_requests = 2
    /\ Len(last.before) = 2
    /\ last.at - last.before[1] = window_seconds
    /\ last.before[2] > last.before[1]
    /\ requests[last.key] = <<last.before[2], last.at>>

\* C34: rate-limit keys are independent. An is_allowed call changes only the
\* sequence of its own key, its answer depends only on that sequence, and
\* the keys of one IP on the two generation endpoints and of two IPs on one
\* endpoint are different keys.
C34_KeysIndependent ==
    [][last'.op = "is_allowed" =>
          /\ DOMAIN requests' = DOMAIN requests \cup {last'.key}
          /\ \A key \in DOMAIN requests \ {last'.key} : requests'[key] = requests[key]
          /\ last'.allowed <=>
                Len(Prune(RequestsOf(last'.key), now, window_seconds)) < max_requests
          /\ \A a \in RateCalls, b \in RateCalls :
                a # b => Key(a[1], a[2]) # Key(b[1], b[2])]_vars

\* One IP is at its limit on the student endpoint and is permitted on the
\* management endpoint, while the other IP is rejected on the student endpoint.
C34_Witness ==
    /\ last.op = "is_allowed"
    /\ last.key = Key("10.0.0.1", "get_management_certificate")
    /\ last.allowed
    /\ Key("10.0.0.1", "get_certificate") \in DOMAIN requests
    /\ Len(requests[Key("10.0.0.1", "get_certificate")]) = max_requests
    /\ Key("10.0.0.2", "get_certificate") \in DOMAIN requests
    /\ Len(requests[Key("10.0.0.2", "get_certificate")]) = max_requests
    /\ requests[last.key] = <<last.at>>

----------------------------------------------------------------------------
(* Claims about what a failing generation request has used up, checked under
   Spec. *)

\* C32: a generation request that passes the rate-limit check uses one slot
\* of its IP and endpoint whatever its later outcome: a request answered 403,
\* 404 or 500 has recorded its timestamp in the rate limiter, and a request
\* that finds 5 timestamps of its key inside the window is answered 429.
C32_FailuresUseSlots ==
    [][GenerationStep =>
          /\ StepKey \in DOMAIN requests'
          /\ (Len(last'.stages) >= 2 \/ last'.code \in {403, 404, 500}) => StepPermitted
          /\ InsideWindow(StepKey) = 5 => last'.code = 429]_vars

\* The sixth request of a window after five that all failed: no token was
\* ever accepted and no certificate was rendered.
C32_Witness ==
    /\ last.op = "get_certificate"
    /\ last.code = 429
    /\ Len(requests[Key(last.client_ip, last.op)]) = 5
    /\ \A i \in 1..5 : now - requests[Key(last.client_ip, last.op)][i] < window_seconds
    /\ certificates = {}
    /\ \A token \in DOMAIN accepted : accepted[token] = 0

\* C33: a valid token is consumed before the roster lookup and the render. A
\* request that reaches the roster lookup has removed its token from the
\* token map, also when it then fails with 404, 503 or 500, and a permitted
\* request that presents a token that is not in the token map is answered 403.
C33_TokenConsumedBeforeLookup ==
    [][GenerationStep =>
          LET token == last'.csrf_token IN
          /\ Len(last'.stages) >= 3 =>
                /\ token \in DOMAIN tokens
                /\ tokens' = Del(tokens, token)
          /\ (Len(last'.stages) >= 3 /\ last'.code \in {404, 503, 500}) =>
                token \notin DOMAIN tokens'
          /\ (Len(last'.stages) >= 2 /\ token \notin DOMAIN tokens) =>
                /\ last'.code = 403
                /\ last'.stages = <<"rate_limit", "csrf">>]_vars

\* A retry with the token of a request that failed after its token was
\* accepted: the token was issued and accepted once, nothing was rendered.
C33_Witness ==
    /\ last.op = "get_certificate"
    /\ last.code = 403
    /\ last.csrf_token \in DOMAIN issued_at
    /\ accepted[last.csrf_token] = 1
    /\ last.csrf_token \notin DOMAIN tokens
    /\ certificates = {}
    /\ Len(requests[Key(last.client_ip, last.op)]) = 2
====
